---- MODULE Spec2Model ----
(***************************************************************************)
(* A model of the book collection pipeline of gp2:                         *)
(*   src/01_api_collection.py  get_books_by_query, parse_book_data,        *)
(*                             collect_books_from_api, __main__            *)
(*   src/02_scraping.py        get_page, parse_book_from_listing,          *)
(*                             scrape_gutenberg, __main__                  *)
(* The fetchers are modelled request by request (FetchSpec); the drivers   *)
(* are modelled loop step by loop step, with the output CSV file, process  *)
(* termination and restart (Spec: any page on any request, no file before  *)
(* the first run; FileSpec: one run on any file; SiteSpec: a remote source *)
(* whose answers are fixed for the whole behaviour).                       *)
(***************************************************************************)
EXTENDS Integers, Sequences, FiniteSets, TLC

VARIABLES
    \* ---- one call of a fetcher (get_books_by_query / get_page)
    fetcher,        \* "api" | "html" | "none" (no fetcher call is being followed)
    api_key,        \* TRUE iff a non-empty api_key was passed
    max_retries,    \* the max_retries argument
    retry_count,    \* the retry_count argument of the current (recursive) call
    fpc,            \* "request" | "keyless" | "returned" | "raised"
    ret,            \* "pending" | "payload" | "None" | "raised"
    log,            \* the requests, responses and sleeps of the call, in order
    \* ---- one driver (collect_books_from_api / scrape_gutenberg) and its file
    driver,         \* "api" | "html" | "none"
    target,         \* max_books_per_query (api) | min_books (html)
    site,           \* the remote source and the disk: any answer, or fixed in advance
    file,           \* the CSV at output_file
    file0,          \* the CSV at output_file before the first run
    run,            \* 1 in the first run of the script, 2 in every later one
    pc,             \* where the running script is
    all_books,      \* the accumulation buffer
    seen,           \* seen_ids (api) | seen_titles (html)
    query_idx,      \* position in the worklist (1-based, as enumerate(.., 1))
    start_index,    \* the pagination cursor
    request_count,  \* api: requests issued for the current query
    books_collected,\* api: per-query count; html: books_collected_this_page
    consecutive_empty_pages,
    result,         \* of the last answer: its kind, len(items), candidates dropped as seen
    requested,      \* the start_index sent with the last request
    summary,        \* api: the books_collected logged at the end of each query
    loaded,         \* the buffer right after this run's startup load
    persists,       \* successful writes of the file by this run
    prior,          \* SiteSpec: how this run relates to the runs before it
    baseline        \* SiteSpec: the final buffer of the first run, once it is written

fvars == <<fetcher, api_key, max_retries, retry_count, fpc, ret, log>>
dvars == <<driver, target, site, file, file0, run, pc, all_books, seen, query_idx,
           start_index, request_count, books_collected, consecutive_empty_pages,
           result, requested, summary, loaded, persists, prior, baseline>>
vars == <<fvars, dvars>>

(***************************************************************************)
(* Bounds of the model.                                                    *)
(***************************************************************************)
MaxRetriesArg == 3     \* max_retries ranges over 0..MaxRetriesArg (default 3)
NumKeys == 2           \* distinct ids / titles the remote may serve (Spec, FileSpec)
MaxPageLen == 2        \* items on one page
MaxTarget == 2         \* max_books_per_query / min_books range over 1..MaxTarget
MaxFileRows == 2       \* rows of a CSV found before the first run (FileSpec)
SmallCat == 2          \* items of a worklist item of a small fixed site (SiteSpec)
BigCat == 201          \* titles of the category of the big fixed site (SiteSpec)
BigQuery == 120        \* items of the query of the big fixed site of the API (SiteSpec)

(***************************************************************************)
(* Constants of the program.                                               *)
(***************************************************************************)
max_requests == 500    \* collect_books_from_api
save_every == 100      \* len(all_books) % 100 == 0, both drivers
max_index == 10000     \* scrape_gutenberg
items_per_page == 25   \* scrape_gutenberg
max_empty_pages == 5   \* scrape_gutenberg

(***************************************************************************)
(* The fetchers.  An event of the log is [ev, n]:                          *)
(*   "request"  n = 1 when the key parameter was sent, 0 when not          *)
(*   "response" n = the HTTP status; 0 = no response (timeout, connection) *)
(*   "badbody"  n = 200: status 200 whose body is not JSON                 *)
(*   "sleep"    n = the seconds passed to time.sleep                       *)
(***************************************************************************)
Ev(e, n) == [ev |-> e, n |-> n]

Pow2(n) == 2 ^ n

\* What requests.get + raise_for_status + response.json() can meet.
ApiResponses ==
    {Ev("response", 200), Ev("badbody", 200), Ev("response", 429),
     Ev("response", 403), Ev("response", 500), Ev("response", 0)}

\* What requests.get + raise_for_status can meet in get_page.
HtmlResponses ==
    {Ev("response", 200), Ev("response", 429), Ev("response", 500),
     Ev("response", 0)}

IsOk(r) == r = Ev("response", 200)

\* wait_time = (2 ** retry_count) * 60
WaitTimeDoubled(rc) == Pow2(rc + 1) * 60
WaitTime(rc) == Pow2(rc) * 60

\* time.sleep(2 ** retry_count)
PageWaitLinear(rc) == rc + 1
PageWait(rc) == Pow2(rc)

\* if retry_count < max_retries
MayRetry(rc, mr) == rc < mr

\* if api_key and e.response.status_code == 403
RemediateAny403(key, r) == r = Ev("response", 403)
Remediates(key, r) == key /\ r = Ev("response", 403)

\* response.json() on a body that is not JSON raises json's ValueError with
\* requests < 2.27 (not a RequestException: it leaves the function) and
\* requests.exceptions.JSONDecodeError (a RequestException without a
\* response: logged, None) from 2.27 on.
BadBodyOutcomes == {"None", "raised"}

FetchInit ==
    /\ fetcher \in {"api", "html"}
    /\ api_key \in (IF fetcher = "api" THEN BOOLEAN ELSE {FALSE})
    /\ max_retries \in 0..MaxRetriesArg
    /\ retry_count = 0
    /\ fpc = "request"
    /\ ret = "pending"
    /\ log = <<>>

FetchIdle ==
    /\ fetcher = "none"
    /\ api_key = FALSE
    /\ max_retries = 0
    /\ retry_count = 0
    /\ fpc = "returned"
    /\ ret = "pending"
    /\ log = <<>>

Return(value, events) ==
    /\ fpc' = (IF value = "raised" THEN "raised" ELSE "returned")
    /\ ret' = value
    /\ log' = log \o events
    /\ UNCHANGED retry_count

\* One pass through get_books_by_query's first requests.get: the request with
\* the parameters as built (the key when api_key is non-empty), the response,
\* and what the except clause does with it.
get_books_by_query ==
    /\ fetcher = "api"
    /\ fpc = "request"
    /\ \E r \in ApiResponses :
        LET sent == <<Ev("request", IF api_key THEN 1 ELSE 0), r>> IN
        IF IsOk(r) THEN Return("payload", sent)
        ELSE IF r.ev = "badbody" THEN
            \E out \in BadBodyOutcomes : Return(out, sent)
        ELSE IF r.n = 429 THEN
            IF MayRetry(retry_count, max_retries)
            THEN /\ log' = log \o sent \o <<Ev("sleep", WaitTime(retry_count))>>
                 /\ retry_count' = retry_count + 1
                 /\ UNCHANGED <<fpc, ret>>
            ELSE Return("None", sent)
        ELSE IF Remediates(api_key, r) THEN
            /\ fpc' = "keyless"
            /\ log' = log \o sent
            /\ UNCHANGED <<retry_count, ret>>
        ELSE Return("None", sent)
    /\ UNCHANGED <<fetcher, api_key, max_retries>>
    /\ UNCHANGED dvars

get_books_by_query_keyless_retrying ==
    /\ fetcher = "api"
    /\ fpc = "keyless"
    /\ \E r \in ApiResponses :
        LET sent == <<Ev("request", 0), r>> IN
        IF IsOk(r) THEN Return("payload", sent)
        ELSE IF r = Ev("response", 429) /\ MayRetry(retry_count, max_retries)
            THEN /\ log' = log \o sent \o <<Ev("sleep", WaitTime(retry_count))>>
                 /\ retry_count' = retry_count + 1
                 /\ UNCHANGED <<fpc, ret>>
            ELSE Return("None", sent)
    /\ UNCHANGED <<fetcher, api_key, max_retries>>
    /\ UNCHANGED dvars

\* The second requests.get, after params.pop("key"): inside try / bare except.
get_books_by_query_keyless ==
    /\ fetcher = "api"
    /\ fpc = "keyless"
    /\ \E r \in ApiResponses :
        LET sent == <<Ev("request", 0), r>> IN
        IF IsOk(r) THEN Return("payload", sent) ELSE Return("None", sent)
    /\ UNCHANGED <<fetcher, api_key, max_retries>>
    /\ UNCHANGED dvars

\* One pass through get_page: request, response, and the except clause.
get_page ==
    /\ fetcher = "html"
    /\ fpc = "request"
    /\ \E r \in HtmlResponses :
        LET sent == <<Ev("request", 0), r>> IN
        IF IsOk(r) THEN Return("payload", sent)
        ELSE IF MayRetry(retry_count, max_retries)
            THEN /\ log' = log \o sent \o <<Ev("sleep", PageWait(retry_count))>>
                 /\ retry_count' = retry_count + 1
                 /\ UNCHANGED <<fpc, ret>>
            ELSE Return("None", sent)
    /\ UNCHANGED <<fetcher, api_key, max_retries>>
    /\ UNCHANGED dvars

(***************************************************************************)
(* Records, pages and the CSV file.                                        *)
(*                                                                         *)
(* A record is [key, val]: key is its dedup key (id for the API, title     *)
(* for the catalog) and val stands for its other fields (author, ...):     *)
(* val = q for an item served for worklist item q (the same id or title    *)
(* may be listed under two queries with different details), None for an    *)
(* item that has no such field, and 0 for a row of a file that was there   *)
(* before the first run.  Keys                                             *)
(* are strings that a CSV round trip gives back unchanged (no key is one   *)
(* of the spellings pandas reads as missing, nor a number).                *)
(***************************************************************************)
Keys == 1..NumKeys
None == 0 - 1      \* Python None: dict.get of a missing field, JSON null
NaN == 0 - 2       \* float nan: what read_csv gives for a blank cell
Blank == 0 - 3     \* a blank cell of the CSV

\* The worklist: queries of __main__ / categories of scrape_gutenberg, cut
\* to its first two items; items are named by their position.
queries == <<"fiction", "mystery">>
NumQueries == Len(queries)

Rec(k, v) == [key |-> k, val |-> v]

\* bool(x) of a key: None and "" are falsy; a string and float nan are truthy.
Truthy(k) == k # None

RECURSIVE SeqsUpTo(_, _)
SeqsUpTo(S, n) ==
    IF n = 0 THEN {<<>>}
    ELSE LET shorter == SeqsUpTo(S, n - 1) IN
         shorter \cup {Append(q, x) : q \in {r \in shorter : Len(r) = n - 1}, x \in S}

KeysOf(books) == {books[i].key : i \in 1..Len(books)}
KeySeq(books) == [i \in 1..Len(books) |-> books[i].key]
NoDuplicateKeys(books) ==
    \A i, j \in 1..Len(books) : books[i].key = books[j].key => i = j
IsPrefix(a, b) == Len(a) <= Len(b) /\ SubSeq(b, 1, Len(a)) = a

\* ---- DataFrame(all_books).to_csv(output_file, index=False)
\* The columns are the union of the records' fields; None and nan are written
\* as a blank cell.  A DataFrame of no records has no column: the file holds
\* no header, and read_csv raises EmptyDataError on it.  parse_book_data
\* puts every field into its dict, None included, so the API's table has the
\* column of a field that no record holds; parse_book_from_listing leaves a
\* missing field out of the dict.
NoFile == [kind |-> "absent", keycol |-> FALSE, valcol |-> FALSE, rows |-> <<>>]
Garbage == [kind |-> "unreadable", keycol |-> FALSE, valcol |-> FALSE, rows |-> <<>>]
WriteCell(k) == IF k \in {None, NaN} THEN Blank ELSE k
to_csv(books) ==
    IF books = <<>>
    THEN [kind |-> "empty", keycol |-> FALSE, valcol |-> FALSE, rows |-> <<>>]
    ELSE [kind |-> "table",
          keycol |-> \E i \in 1..Len(books) : books[i].key # None,
          valcol |-> driver = "api" \/ \E i \in 1..Len(books) : books[i].val # None,
          rows |-> [i \in 1..Len(books) |->
                        Rec(WriteCell(books[i].key), WriteCell(books[i].val))]]

\* ---- pd.read_csv(output_file) and existing_df.to_dict('records')
\* A blank cell is read as nan; a record has no entry for a column the file
\* does not have (record.get gives None).
ReadRaises(f) == f.kind \in {"empty", "unreadable"}
ReadCell(has_column, c) == IF ~has_column THEN None ELSE IF c = Blank THEN NaN ELSE c
to_dict_records(f) ==
    [i \in 1..Len(f.rows) |->
        Rec(ReadCell(f.keycol, f.rows[i].key), ReadCell(f.valcol, f.rows[i].val))]

\* What a write that fails, or is cut short by the end of the process, can
\* leave at output_file: the file as it was (it could not be opened), or the
\* header and the first n rows of the new content (on a site whose disk is
\* "locked" only the former).
PartialWrites(books) ==
    {[to_csv(books) EXCEPT !.rows = SubSeq(to_csv(books).rows, 1, n)] :
        n \in 0..(Len(books) - 1)}
FailedWrites(old, books) ==
    IF site.disk = "locked" THEN {old} ELSE {old} \cup PartialWrites(books)

\* ---- the startup load
\* collect_books_from_api: nothing is loaded unless the file parses and has
\* an id column; seen_ids = set(existing_df['id'].dropna().unique()).
ApiLoadBooks(f) ==
    IF f.kind = "absent" \/ ReadRaises(f) \/ ~f.keycol THEN <<>> ELSE to_dict_records(f)
ApiLoadSeenNone(f) == {}
ApiLoadSeen(f) == KeysOf(ApiLoadBooks(f)) \ {NaN}

\* scrape_gutenberg: every row of a file that parses is loaded;
\* seen_titles = {book.get('title', '') for book in all_books if book.get('title')}
HtmlLoadBooks(f) ==
    IF f.kind = "absent" \/ ReadRaises(f) THEN <<>> ELSE to_dict_records(f)
HtmlLoadSeen(f) == {k \in KeysOf(HtmlLoadBooks(f)) : Truthy(k)}

\* ---- items of a page
\* the raw items of a page served for worklist item q
MkItems(keys, q) == [i \in 1..Len(keys) |-> Rec(keys[i], q)]
\* the same where the items with a key in bare have no author field
MkItemsBare(keys, q, bare) ==
    [i \in 1..Len(keys) |-> Rec(keys[i], IF keys[i] \in bare THEN None ELSE q)]

\* parse_book_data keeps the id as it is (None when the item has none);
\* parse_book_from_listing returns None for an element without a title.
parse_book_data(item) == item
parse_book_from_listing(elem) == elem

\* for item in result["items"]: the admission loop of collect_books_from_api.
\* acc = [books, seen, n, dup]: the buffer, seen_ids, books_collected, and how
\* many candidates were dropped because their key was in seen_ids.
ApiAdmitsNoCheck(rec, acc) == Truthy(rec.key)
ApiAdmits(rec, acc) == Truthy(rec.key) /\ rec.key \notin acc.seen

RECURSIVE ApiAdmitAllFront(_, _)
ApiAdmitAllFront(items, acc) ==
    IF items = <<>> THEN acc
    ELSE LET book_data == parse_book_data(Head(items))
             next == IF ApiAdmits(book_data, acc)
                     THEN [books |-> <<book_data>> \o acc.books,
                           seen |-> acc.seen \cup {book_data.key},
                           n |-> acc.n + 1, dup |-> acc.dup]
                     ELSE IF Truthy(book_data.key)
                     THEN [acc EXCEPT !.dup = acc.dup + 1]
                     ELSE acc
         IN ApiAdmitAllFront(Tail(items), next)

RECURSIVE ApiAdmitAll(_, _)
ApiAdmitAll(items, acc) ==
    IF items = <<>> THEN acc
    ELSE LET book_data == parse_book_data(Head(items))
             next == IF ApiAdmits(book_data, acc)
                     THEN [books |-> Append(acc.books, book_data),
                           seen |-> acc.seen \cup {book_data.key},
                           n |-> acc.n + 1, dup |-> acc.dup]
                     ELSE IF Truthy(book_data.key)
                     THEN [acc EXCEPT !.dup = acc.dup + 1]
                     ELSE acc
         IN ApiAdmitAll(Tail(items), next)

\* for book_elem in books: the admission loop of scrape_gutenberg, with its
\* break when the buffer reaches min_books.
HtmlAdmits(rec, acc) == Truthy(rec.key) /\ rec.key \notin acc.seen

RECURSIVE HtmlAdmitWholePage(_, _, _)
HtmlAdmitWholePage(elems, acc, min_books) ==
    IF elems = <<>> THEN acc
    ELSE LET book_data == parse_book_from_listing(Head(elems))
             next == IF HtmlAdmits(book_data, acc)
                     THEN [books |-> Append(acc.books, book_data),
                           seen |-> acc.seen \cup {book_data.key},
                           n |-> acc.n + 1, dup |-> acc.dup]
                     ELSE IF Truthy(book_data.key)
                     THEN [acc EXCEPT !.dup = acc.dup + 1]
                     ELSE acc
         IN HtmlAdmitWholePage(Tail(elems), next, min_books)

RECURSIVE HtmlAdmitAll(_, _, _)
HtmlAdmitAll(elems, acc, min_books) ==
    IF elems = <<>> \/ Len(acc.books) >= min_books THEN acc
    ELSE LET book_data == parse_book_from_listing(Head(elems))
             next == IF HtmlAdmits(book_data, acc)
                     THEN [books |-> Append(acc.books, book_data),
                           seen |-> acc.seen \cup {book_data.key},
                           n |-> acc.n + 1, dup |-> acc.dup]
                     ELSE IF Truthy(book_data.key)
                     THEN [acc EXCEPT !.dup = acc.dup + 1]
                     ELSE acc
         IN HtmlAdmitAll(Tail(elems), next, min_books)

\* what the driver's state keeps of an answer: its kind, len(items), and how
\* many of its candidates were dropped as already seen
Answer(r, dup) == [kind |-> r.kind, n |-> Len(r.items), dup |-> dup]
NoResult == [kind |-> "none", n |-> 0, dup |-> 0]

DriverIdle ==
    /\ driver = "none"
    /\ target = 0
    /\ site = [kind |-> "none", disk |-> "none"]
    /\ file = NoFile
    /\ file0 = file
    /\ run = 0
    /\ pc = "done"
    /\ all_books = <<>>
    /\ seen = {}
    /\ query_idx = 0
    /\ start_index = 0
    /\ request_count = 0
    /\ books_collected = 0
    /\ consecutive_empty_pages = 0
    /\ result = NoResult
    /\ requested = 0
    /\ summary = <<>>
    /\ loaded = <<>>
    /\ persists = 0
    /\ prior = "none"
    /\ baseline = [set |-> FALSE, books |-> <<>>]

FetchNext == get_books_by_query \/ get_books_by_query_keyless \/ get_page

FetchStart == FetchInit /\ DriverIdle

FetchSpec == FetchStart /\ [][FetchNext]_vars

(***************************************************************************)
(* The remote source.  site.kind = "any": each request may be answered by  *)
(* any result the fetcher can return.  site.kind = "fixed": worklist item  *)
(* q has the catalogue base[q]+1 .. base[q]+n[q], served page_size items   *)
(* at a time from the offset asked for, the same way on every request; the *)
(* items whose key is in site.bare have no author field.  site.disk tells  *)
(* whether a write of output_file may fail ("any"; "locked" when a write   *)
(* that fails leaves the file as it was) or not ("good").                  *)
(***************************************************************************)
AnySite == [kind |-> "any", disk |-> "any"]
Res(kind, items) == [kind |-> kind, items |-> items]

AnyPages(q) == {Res("page", MkItems(ks, q)) : ks \in SeqsUpTo(Keys \cup {None}, MaxPageLen)}

\* items first..last of the catalogue of q (positions counted from 1)
Slice(st, q, first) ==
    LET last == IF first + st.page_size - 1 < st.n[q]
                THEN first + st.page_size - 1 ELSE st.n[q]
    IN IF first > last THEN <<>>
       ELSE MkItemsBare([i \in 1..(last - first + 1) |-> st.base[q] + first + i - 1],
                        q, st.bare)

\* get_books_by_query(query, api_key, max_results=40, start_index=start_index):
\* None, a payload without "items", a payload with items, or (BadBodyOutcomes)
\* an exception that is not caught.  startIndex counts from 0.
ApiOffer(q, start) ==
    IF site.kind = "any"
    THEN {Res("None", <<>>), Res("no_items", <<>>), Res("raise", <<>>)} \cup AnyPages(q)
    ELSE {IF Slice(site, q, start + 1) = <<>> THEN Res("no_items", <<>>)
          ELSE Res("page", Slice(site, q, start + 1))}

\* get_page(search_url) and soup.find_all('li', class_='booklink'): None, or
\* the listing elements of the page.  start_index counts from 1.
HtmlOffer(q, start) ==
    IF site.kind = "any"
    THEN {Res("None", <<>>)} \cup AnyPages(q)
    ELSE {Res("page", Slice(site, q, start))}

(***************************************************************************)
(* Writing the file.                                                       *)
(***************************************************************************)
\* len(all_books) > 0 and len(all_books) % 100 == 0
SaveDue(books) == Len(books) > 0 /\ Len(books) % save_every = 0

\* try: DataFrame(all_books).to_csv(output_file) except: log
WriteOutcomes == IF site.disk = "good" THEN {TRUE} ELSE BOOLEAN
PersistNew(books) ==
    \E ok \in WriteOutcomes :
        IF ok THEN /\ file' = to_csv(SubSeq(books, Len(file.rows) + 1, Len(books)))
                   /\ persists' = persists + 1
        ELSE file' \in FailedWrites(file, books) /\ UNCHANGED persists
Persist(books) ==
    \E ok \in WriteOutcomes :
        IF ok THEN file' = to_csv(books) /\ persists' = persists + 1
        ELSE file' \in FailedWrites(file, books) /\ UNCHANGED persists

\* if result and "items" in result and len(result["items"]) > 0
HasItemsUnlessEmpty(r) == r.kind # "no_items"
HasItems(r) == r.kind = "page" /\ Len(r.items) > 0

\* start_index += items_count
ApiAdvanceStays(start, items_count) == start
ApiAdvanceByStride(start, items_count) == start + 40
ApiAdvance(start, items_count) == start + items_count

\* if consecutive_empty_pages >= max_empty_pages
StreakEndsLate(streak) == streak > max_empty_pages
StreakEnds(streak) == streak >= max_empty_pages

\* start_index += items_per_page
HtmlAdvance(start, count) == start + items_per_page

(***************************************************************************)
(* The drivers.  pc: "load" -> "for" -> "while"* -> "end_query" -> "for"   *)
(* ... -> "return" -> "done"; "killed" when the process was terminated,   *)
(* "raised" when an exception left the script.                             *)
(***************************************************************************)
Running == {"load", "for", "while", "end_query", "return"}

\* the startup load of either driver, up to the for loop
Load ==
    /\ pc = "load"
    /\ all_books' = (IF driver = "api" THEN ApiLoadBooks(file) ELSE HtmlLoadBooks(file))
    /\ seen' = (IF driver = "api" THEN ApiLoadSeen(file) ELSE HtmlLoadSeen(file))
    /\ loaded' = all_books'
    /\ query_idx' = 1
    /\ pc' = "for"
    /\ UNCHANGED <<driver, target, site, file, file0, run, start_index, request_count,
                   books_collected, consecutive_empty_pages, result, requested,
                   summary, persists, prior, baseline>>
    /\ UNCHANGED fvars

\* for query_idx, query in enumerate(queries, 1): the loop head and the
\* initialisation of the per-query locals
ApiFor ==
    /\ driver = "api" /\ pc = "for"
    /\ IF query_idx <= NumQueries
       THEN /\ books_collected' = 0
            /\ start_index' = 0
            /\ request_count' = 0
            /\ pc' = "while"
       ELSE /\ pc' = "return"
            /\ UNCHANGED <<books_collected, start_index, request_count>>
    /\ UNCHANGED <<driver, target, site, file, file0, run, all_books, seen, query_idx,
                   consecutive_empty_pages, result, requested, summary, loaded,
                   persists, prior, baseline>>
    /\ UNCHANGED fvars

\* One pass of  while start_index < max_books_per_query and request_count <
\* max_requests:  the loop head, the call of get_books_by_query, and the body:
\* admission, cursor, sleep and the save at a multiple of 100, or the break
\* of the else branch.  result keeps the kind of the answer and its number of
\* raw items, requested the startIndex that was sent.
ApiWhile ==
    /\ driver = "api" /\ pc = "while"
    /\ IF start_index < target /\ request_count < max_requests
       THEN \E r \in ApiOffer(query_idx, start_index) :
              IF r.kind = "raise"
              THEN /\ pc' = "raised"
                   /\ UNCHANGED <<result, requested, request_count, all_books, seen,
                                  books_collected, start_index, file, persists>>
              ELSE /\ requested' = start_index
                   /\ request_count' = request_count + 1
                   /\ IF HasItems(r)
                      THEN LET items_count == Len(r.items)
                               acc == ApiAdmitAll(r.items,
                                         [books |-> all_books, seen |-> seen,
                                          n |-> books_collected, dup |-> 0])
                           IN /\ result' = Answer(r, acc.dup)
                              /\ all_books' = acc.books
                              /\ seen' = acc.seen
                              /\ books_collected' = acc.n
                              /\ start_index' = ApiAdvance(start_index, items_count)
                              /\ IF SaveDue(acc.books) THEN Persist(acc.books)
                                 ELSE UNCHANGED <<file, persists>>
                              /\ pc' = "while"
                      ELSE /\ result' = Answer(r, 0)
                           /\ pc' = "end_query"
                           /\ UNCHANGED <<all_books, seen, books_collected, start_index,
                                          file, persists>>
       ELSE /\ pc' = "end_query"
            /\ UNCHANGED <<result, requested, request_count, all_books, seen,
                           books_collected, start_index, file, persists>>
    /\ UNCHANGED <<driver, target, site, file0, run, query_idx,
                   consecutive_empty_pages, summary, loaded, prior, baseline>>
    /\ UNCHANGED fvars

\* the pagination state of one worklist item is dead once the item is done
\* (the next pass of the for loop sets it anew)
Discarded ==
    /\ start_index' = 0
    /\ request_count' = 0
    /\ books_collected' = 0
    /\ consecutive_empty_pages' = 0
    /\ result' = NoResult
    /\ requested' = 0

\* logger.info(f"... {books_collected} ..."): the count the summary line of a
\* query reports
QuerySummaryTotal(collected, books) == Len(books)
QuerySummary(collected, books) == collected

\* after the while loop: the per-query summary, the save after the query,
\* the sleep, and the step to the next query
ApiEndQuery ==
    /\ driver = "api" /\ pc = "end_query"
    /\ summary' = Append(summary, QuerySummary(books_collected, all_books))
    /\ IF Len(all_books) > 0 THEN Persist(all_books) ELSE UNCHANGED <<file, persists>>
    /\ query_idx' = query_idx + 1
    /\ pc' = "for"
    /\ Discarded
    /\ UNCHANGED <<driver, target, site, file0, run, all_books, seen, loaded, prior,
                   baseline>>
    /\ UNCHANGED fvars

\* for query_idx, query in enumerate(categories, 1): the loop head, its
\* break at min_books, and the initialisation of the per-category locals
HtmlFor ==
    /\ driver = "html" /\ pc = "for"
    /\ IF query_idx <= NumQueries /\ Len(all_books) < target
       THEN /\ start_index' = 1
            /\ consecutive_empty_pages' = 0
            /\ pc' = "while"
       ELSE /\ pc' = "return"
            /\ UNCHANGED <<start_index, consecutive_empty_pages>>
    /\ UNCHANGED <<driver, target, site, file, file0, run, all_books, seen, query_idx,
                   request_count, books_collected, result, requested, summary, loaded,
                   persists, prior, baseline>>
    /\ UNCHANGED fvars

\* One pass of  while start_index < max_index and len(all_books) < min_books:
\* the loop head, get_page and find_all, and the body: the two breaks,
\* admission, the empty-page streak and its break, the save at a multiple of
\* 100, the cursor, the sleep.
HtmlWhile ==
    /\ driver = "html" /\ pc = "while"
    /\ IF start_index < max_index /\ Len(all_books) < target
       THEN \E r \in HtmlOffer(query_idx, start_index) :
              /\ requested' = start_index
              /\ IF r.kind = "None" \/ r.items = <<>>
                 THEN /\ result' = Answer(r, 0)
                      /\ pc' = "end_query"
                      /\ UNCHANGED <<all_books, seen, books_collected,
                                     consecutive_empty_pages, start_index, file, persists>>
                 ELSE LET acc == HtmlAdmitAll(r.items,
                                     [books |-> all_books, seen |-> seen, n |-> 0,
                                      dup |-> 0], target)
                          streak == IF acc.n = 0 THEN consecutive_empty_pages + 1 ELSE 0
                      IN /\ result' = Answer(r, acc.dup)
                         /\ all_books' = acc.books
                         /\ seen' = acc.seen
                         /\ books_collected' = acc.n
                         /\ consecutive_empty_pages' = streak
                         /\ IF acc.n = 0 /\ StreakEnds(streak)
                            THEN /\ pc' = "end_query"
                                 /\ UNCHANGED <<start_index, file, persists>>
                            ELSE /\ IF SaveDue(acc.books) THEN Persist(acc.books)
                                    ELSE UNCHANGED <<file, persists>>
                                 /\ start_index' = HtmlAdvance(start_index, Len(r.items))
                                 /\ pc' = "while"
       ELSE /\ pc' = "end_query"
            /\ UNCHANGED <<result, requested, all_books, seen, books_collected,
                           consecutive_empty_pages, start_index, file, persists>>
    /\ UNCHANGED <<driver, target, site, file0, run, query_idx, request_count,
                   summary, loaded, prior, baseline>>
    /\ UNCHANGED fvars

\* after the while loop: the log line (it shows len(all_books)), the sleep,
\* and the step to the next category (scrape_gutenberg writes no file here)
HtmlEndQuery ==
    /\ driver = "html" /\ pc = "end_query"
    /\ query_idx' = query_idx + 1
    /\ pc' = "for"
    /\ Discarded
    /\ UNCHANGED <<driver, target, site, file, file0, run, all_books, seen, summary,
                   loaded, persists, prior, baseline>>
    /\ UNCHANGED fvars

\* __main__ after the driver returned: df_books.to_csv(output_file), not
\* inside a try
Saved(ok) ==
    /\ pc = "return"
    /\ IF ok
       THEN /\ file' = to_csv(all_books)
            /\ persists' = persists + 1
            /\ pc' = "done"
       ELSE /\ file' \in FailedWrites(file, all_books)
            /\ pc' = "raised"
            /\ UNCHANGED persists
    /\ UNCHANGED <<driver, target, site, file0, run, all_books, seen, query_idx,
                   start_index, request_count, books_collected, consecutive_empty_pages,
                   result, requested, summary, loaded>>
    /\ UNCHANGED fvars

MainSave == \E ok \in WriteOutcomes : Saved(ok) /\ UNCHANGED <<prior, baseline>>

\* the memory of a process that ended is gone; what stays is the file
Forgotten ==
    /\ all_books' = <<>>
    /\ seen' = {}
    /\ query_idx' = 0
    /\ start_index' = 0
    /\ request_count' = 0
    /\ books_collected' = 0
    /\ consecutive_empty_pages' = 0
    /\ result' = NoResult
    /\ requested' = 0
    /\ summary' = <<>>
    /\ loaded' = <<>>

\* the process is terminated from outside
Kill ==
    /\ pc \in Running
    /\ pc' = "killed"
    /\ Forgotten
    /\ UNCHANGED <<driver, target, site, file, file0, run, persists, prior, baseline>>
    /\ UNCHANGED fvars

\* the script is started again: all of its state is new
Started ==
    /\ pc \in {"done", "killed", "raised"}
    /\ pc' = "load"
    /\ run' = 2
    /\ Forgotten
    /\ persists' = 0
    /\ UNCHANGED <<driver, target, site, file0>>
    /\ UNCHANGED fvars

\* ... with the file as the runs before left it
Restart ==
    /\ Started
    /\ UNCHANGED <<file, prior, baseline>>

\* A CSV that may lie at output_file before the first run: none, one that
\* does not parse, or a table with or without the key column whose key cells
\* hold a key or are blank.
InitialFiles ==
    {NoFile, Garbage} \cup
    {[kind |-> "table", keycol |-> kc, valcol |-> TRUE,
      rows |-> [i \in 1..Len(ks) |-> Rec(ks[i], 0)]] :
        kc \in BOOLEAN, ks \in SeqsUpTo(Keys \cup {Blank}, MaxFileRows)}

DriverStart(d, t, st, f) ==
    /\ driver = d
    /\ target = t
    /\ site = st
    /\ file = f
    /\ file0 = f
    /\ run = 1
    /\ pc = "load"
    /\ all_books = <<>>
    /\ seen = {}
    /\ query_idx = 0
    /\ start_index = 0
    /\ request_count = 0
    /\ books_collected = 0
    /\ consecutive_empty_pages = 0
    /\ result = NoResult
    /\ requested = 0
    /\ summary = <<>>
    /\ loaded = <<>>
    /\ persists = 0
    /\ prior = "none"
    /\ baseline = [set |-> FALSE, books |-> <<>>]

\* The first run finds no file at output_file; a later run finds what the
\* runs before it left there.  max_books_per_query / min_books is 1..MaxTarget.
Init ==
    /\ FetchIdle
    /\ \E d \in {"api", "html"}, t \in 1..MaxTarget :
          DriverStart(d, t, AnySite, NoFile)

Next ==
    \/ Load
    \/ ApiFor \/ ApiWhile \/ ApiEndQuery
    \/ HtmlFor \/ HtmlWhile \/ HtmlEndQuery
    \/ MainSave \/ Kill \/ Restart

Spec == Init /\ [][Next]_vars

\* One run that finds any of InitialFiles at output_file.
FileInit ==
    /\ FetchIdle
    /\ \E d \in {"api", "html"}, t \in 1..MaxTarget, f \in InitialFiles :
          DriverStart(d, t, AnySite, f)

FileNext ==
    \/ Load
    \/ ApiFor \/ ApiWhile \/ ApiEndQuery
    \/ HtmlFor \/ HtmlWhile \/ HtmlEndQuery
    \/ MainSave

FileSpec == FileInit /\ [][FileNext]_vars

(***************************************************************************)
(* Runs against an unchanged source.  The source is a fixed site, every    *)
(* request is answered and every write succeeds.  The first run starts     *)
(* with no file; when it has completed and written its final buffer, that  *)
(* buffer is kept as baseline.  Then either the script is run again on the *)
(* file (prior = "completed"), or the file is removed and the script is    *)
(* run from scratch                                                        *)
(* (prior = "fresh"), killed after at least one successful write of this   *)
(* run, and started again on the file it left (prior = "killed").          *)
(***************************************************************************)
Site(p, n1, n2, b2, bare) ==
    [kind |-> "fixed", disk |-> "good", page_size |-> p, n |-> <<n1, n2>>,
     base |-> <<0, b2>>, bare |-> bare]

\* catalogues of at most SmallCat items per worklist item; the second is
\* disjoint from the first or starts with the same items
SmallSites ==
    {Site(p, n1, n2, b2, bare) :
        p \in 1..MaxPageLen, n1 \in 0..SmallCat, n2 \in 0..SmallCat,
        b2 \in {0, SmallCat}, bare \in {{}, {1}}}

\* "fiction" has 3 items, "mystery" 5 others, served p at a time
ScenarioSite(p) == Site(p, 3, 5, 3, {})
ScenarioPageSizes == {2, 5}

\* a category of BigCat titles served 25 at a time, and an empty one
BigSite == Site(items_per_page, BigCat, 0, BigCat, {})

\* a query of BigQuery items served 30 at a time (the source may return fewer
\* than the max_results = 40 asked for), and an empty one
BigApiSite == Site(30, BigQuery, 0, BigQuery, {})

SiteInit ==
    /\ FetchIdle
    /\ \/ \E d \in {"api", "html"}, t \in 1..MaxTarget, st \in SmallSites :
             DriverStart(d, t, st, NoFile)
       \/ \E p \in ScenarioPageSizes : DriverStart("api", 5, ScenarioSite(p), NoFile)
       \/ DriverStart("html", BigCat, BigSite, NoFile)
       \/ DriverStart("api", BigQuery, BigApiSite, NoFile)

SiteMainSave ==
    \E ok \in WriteOutcomes :
        /\ Saved(ok)
        /\ baseline' = IF ok /\ prior = "none"
                       THEN [set |-> TRUE, books |-> all_books] ELSE baseline
        /\ UNCHANGED prior

Rerun ==
    /\ pc = "done" /\ prior = "none"
    /\ Started
    /\ prior' = "completed"
    /\ UNCHANGED <<file, baseline>>

Fresh ==
    /\ pc = "done" /\ prior = "none"
    /\ Started
    /\ file' = NoFile
    /\ prior' = "fresh"
    /\ UNCHANGED baseline

SiteKill == prior = "fresh" /\ persists >= 1 /\ Kill

Resume ==
    /\ pc = "killed" /\ prior = "fresh"
    /\ Started
    /\ prior' = "killed"
    /\ UNCHANGED <<file, baseline>>

SiteNext ==
    \/ Load
    \/ ApiFor \/ ApiWhile \/ ApiEndQuery
    \/ HtmlFor \/ HtmlWhile \/ HtmlEndQuery
    \/ SiteMainSave \/ Rerun \/ Fresh \/ SiteKill \/ Resume

SiteSpec == SiteInit /\ [][SiteNext]_vars

(***************************************************************************)
(* One run on a disk whose writes may fail: any source, a category of      *)
(* save_every titles (a failing write may leave a part of the table), and  *)
(* the category of BigCat titles (a failing write leaves the file as it    *)
(* was).                                                                   *)
(***************************************************************************)
HundredSite == [Site(items_per_page, save_every, 0, save_every, {}) EXCEPT !.disk = "any"]
LockedSite == [BigSite EXCEPT !.disk = "locked"]

DiskInit ==
    /\ FetchIdle
    /\ \/ \E d \in {"api", "html"}, t \in 1..MaxTarget : DriverStart(d, t, AnySite, NoFile)
       \/ DriverStart("html", save_every, HundredSite, NoFile)
       \/ DriverStart("html", BigCat, LockedSite, NoFile)

DiskNext ==
    \/ Load
    \/ ApiFor \/ ApiWhile \/ ApiEndQuery
    \/ HtmlFor \/ HtmlWhile \/ HtmlEndQuery
    \/ MainSave

DiskSpec == DiskInit /\ [][DiskNext]_vars

(***************************************************************************)
(* Reading the log of a fetcher call.                                      *)
(***************************************************************************)
ReqIdx == {i \in 1..Len(log) : log[i].ev = "request"}
RespIdx == {i \in 1..Len(log) : log[i].ev \in {"response", "badbody"}}
SleepIdx == {i \in 1..Len(log) : log[i].ev = "sleep"}
NumRequests == Cardinality(ReqIdx)
\* how many requests were issued before position i
RequestsBefore(i) == Cardinality({j \in ReqIdx : j < i})
All429 == \A i \in RespIdx : log[i] = Ev("response", 429)
\* the positions of a 403 answer to a request that carried the key
Keyed403 == {i \in RespIdx : log[i] = Ev("response", 403) /\ log[i - 1] = Ev("request", 1)}
\* the positions of a 403 answer to a request of a call that was given no key
Anon403 == {i \in RespIdx : log[i] = Ev("response", 403) /\ ~api_key}

(***************************************************************************)
(* C5  Backoff schedule of the API fetcher.  While every response is 429,  *)
(* the N-th retry (the (N+1)-th request) comes right after a sleep of      *)
(* 60 * 2^(N-1) seconds, the sleeps grow, at most max_retries retries are  *)
(* made, and the call has returned exactly when max_retries + 1 requests   *)
(* were answered with 429: then it returned None, did not raise, and no    *)
(* further step of the fetcher is possible.                                *)
(***************************************************************************)
C5_Backoff429 ==
    (fetcher = "api" /\ All429) =>
        /\ \A i \in ReqIdx :
              LET N == RequestsBefore(i) IN
              N >= 1 => (i > 1 /\ log[i - 1] = Ev("sleep", 60 * Pow2(N - 1)))
        /\ \A i, j \in SleepIdx : i < j => log[i].n < log[j].n
        /\ Cardinality(SleepIdx) = retry_count
        /\ NumRequests <= max_retries + 1
        /\ ret \in {"pending", "None"}
        /\ (fpc = "returned") <=>
               (NumRequests = max_retries + 1 /\ Cardinality(RespIdx) = NumRequests)
        /\ fpc = "returned" => (ret = "None" /\ ~ENABLED FetchNext)

C5_Witness ==
    /\ fetcher = "api" /\ All429 /\ fpc = "returned"
    /\ max_retries = 3 /\ NumRequests = 4 /\ log[Len(log) - 1] = Ev("request", 1)

(***************************************************************************)
(* C6  403 remediation of the API fetcher.  A 403 answer to a request that *)
(* carried the key is followed at once (no sleep, retry_count as it was)   *)
(* by exactly one request without the key, whose answer ends the call:     *)
(* the payload when it is a good 200, None otherwise, never an exception.  *)
(* A 403 answer to a call made without a key ends the call with None and   *)
(* no further request.                                                     *)
(***************************************************************************)
C6_Remediation403 ==
    fetcher = "api" =>
        /\ \A i \in Keyed403 :
              /\ api_key
              /\ retry_count = Cardinality({j \in SleepIdx : j < i})
              /\ i = Len(log) => (fpc = "keyless" /\ ret = "pending")
              /\ i < Len(log) =>
                    /\ log[i + 1] = Ev("request", 0)
                    /\ Len(log) = i + 2
                    /\ fpc = "returned"
                    /\ ret = (IF IsOk(log[i + 2]) THEN "payload" ELSE "None")
        /\ api_key => Cardinality({i \in ReqIdx : log[i].n = 0}) <= 1
        /\ api_key => \A i \in ReqIdx : log[i].n = 0 => (i - 1) \in Keyed403
        /\ \A i \in Anon403 : i = Len(log) /\ fpc = "returned" /\ ret = "None"
        /\ fpc = "keyless" => Len(log) \in Keyed403

C6_Witness ==
    /\ fetcher = "api" /\ api_key /\ retry_count >= 1
    /\ \E i \in Keyed403 : Len(log) = i + 2 /\ log[i + 2] = Ev("response", 429)
    /\ ret = "None"

(***************************************************************************)
(* C7  Retry policy of the HTML fetcher.  A failed request on attempt a    *)
(* (a = the number of earlier requests) is followed, when a < max_retries, *)
(* by a sleep of 2^a seconds and then one more request; when               *)
(* a = max_retries the call returns None.  A good response returns the     *)
(* page at once.  At most max_retries + 1 requests are made and the call   *)
(* never raises.                                                           *)
(***************************************************************************)
C7_PageRetry ==
    fetcher = "html" =>
        /\ \A i \in RespIdx :
              LET a == RequestsBefore(i) - 1 IN
              IF IsOk(log[i])
              THEN i = Len(log) /\ fpc = "returned" /\ ret = "payload"
              ELSE IF a < max_retries
                   THEN /\ Len(log) >= i + 1
                        /\ log[i + 1] = Ev("sleep", Pow2(a))
                        /\ Len(log) = i + 1 => (fpc = "request" /\ ret = "pending")
                        /\ Len(log) > i + 1 => log[i + 2] = Ev("request", 0)
                   ELSE i = Len(log) /\ fpc = "returned" /\ ret = "None"
        /\ NumRequests <= max_retries + 1
        /\ ret # "raised"
        /\ fpc = "returned" => ~ENABLED FetchNext

C7_Witness ==
    /\ fetcher = "html" /\ max_retries = 3 /\ NumRequests = 4
    /\ fpc = "returned" /\ ret = "None"

(***************************************************************************)
(* C1  Dedup invariant.  In both drivers, for a run that finds no file or  *)
(* a file left by earlier runs of the same driver, whatever pages are      *)
(* served: no two records of all_books have the same key, len(all_books)   *)
(* is the size of the seen-set, and a pass of the while loop only appends  *)
(* to all_books records whose key was not seen (a candidate with a seen    *)
(* key is dropped, the records already there stay as they are).            *)
(***************************************************************************)
AdmissionKeepsEarlier ==
    (pc = "while" /\ pc' \in {"while", "end_query"}) =>
        /\ IsPrefix(all_books, all_books')
        /\ \A i \in (Len(all_books) + 1)..Len(all_books') : all_books'[i].key \notin seen
        /\ seen' = seen \cup {all_books'[i].key : i \in (Len(all_books) + 1)..Len(all_books')}

C1_DedupInvariant ==
    /\ [](NoDuplicateKeys(all_books) /\ Len(all_books) = Cardinality(seen))
    /\ [][AdmissionKeepsEarlier]_vars

\* a second run loaded the file of the first and dropped a candidate of
\* another query whose key it had loaded
C1_Witness ==
    /\ driver = "html" /\ run = 2 /\ pc = "while"
    /\ Len(loaded) = 1 /\ query_idx = 2 /\ result.dup >= 1
    /\ all_books = loaded /\ loaded[1].val = 1

(***************************************************************************)
(* C2  Seeding synchronisation.  After the startup load of either driver,  *)
(* for every file that loads, rows with a blank key or a repeated key      *)
(* included: every record of the buffer has its key in the seen-set and    *)
(* every key of the seen-set is the key of a record of the buffer, and     *)
(* this stays so after every admission.                                    *)
(***************************************************************************)
C2_SeedingSync ==
    pc \in (Running \ {"load"}) =>
        /\ \A i \in 1..Len(all_books) : all_books[i].key \in seen
        /\ \A k \in seen : k \in KeysOf(all_books)

\* the API driver loaded a row with a blank id: the record is in the buffer,
\* its id (nan) is not in seen_ids
C2_Witness ==
    /\ driver = "api" /\ pc = "for" /\ query_idx = 1
    /\ file0.kind = "table" /\ file0.keycol
    /\ \E i \in 1..Len(all_books) : all_books[i].key = NaN /\ NaN \notin seen

(***************************************************************************)
(* C3  Cursor of the API driver.  After a page with k >= 1 raw items the   *)
(* cursor start_index is the startIndex that was requested plus k, k being *)
(* the number of raw items whether or not they were admitted, and every    *)
(* request of the driver sends the cursor as its startIndex.               *)
(***************************************************************************)
ApiSendsCursor ==
    (driver = "api" /\ request_count' = request_count + 1) => requested' = start_index

C3_ApiCursor ==
    /\ []((driver = "api" /\ pc = "while" /\ result.kind = "page") =>
              (result.n >= 1 /\ start_index = requested + result.n))
    /\ [][ApiSendsCursor]_vars

\* a page of two items, both dropped as duplicates, moved the cursor by two
C3_Witness ==
    /\ driver = "api" /\ pc = "while" /\ result.kind = "page"
    /\ result.n = 2 /\ result.dup = 2 /\ requested = 1 /\ start_index = 3

(***************************************************************************)
(* C4  Cursor of the catalog driver.  After a page on which k >= 1 listing *)
(* elements were found and after which the loop goes on, start_index is    *)
(* the start_index that was requested plus k.                              *)
(***************************************************************************)
C4_HtmlCursor ==
    (driver = "html" /\ pc = "while" /\ result.kind = "page") =>
        start_index = requested + result.n

\* the loop goes on after a page of two listing elements
C4_Witness ==
    /\ driver = "html" /\ pc = "while" /\ result.kind = "page" /\ result.n = 2
    /\ requested = 1 /\ start_index = 1 + items_per_page

(***************************************************************************)
(* C8  End-to-end scenario of the API driver.  Worklist fiction, mystery;  *)
(* target 5 per query; no file; the source has 3 items for fiction (then   *)
(* none) and 5 others for mystery.  When collect_books_from_api returns,   *)
(* the buffer holds exactly 8 records, the 3 of fiction in the order       *)
(* served and then the 5 of mystery, and the per-query counts are 3, 5.    *)
(***************************************************************************)
InScenario ==
    /\ driver = "api" /\ target = 5 /\ prior = "none"
    /\ \E p \in ScenarioPageSizes : site = ScenarioSite(p)

C8_Scenario ==
    (InScenario /\ pc \in {"return", "done"}) =>
        /\ Len(all_books) = 8
        /\ KeySeq(all_books) = <<1, 2, 3, 4, 5, 6, 7, 8>>
        /\ \A i \in 1..8 : all_books[i].val = (IF i <= 3 THEN 1 ELSE 2)
        /\ summary = <<3, 5>>

\* the driver has returned in the scenario whose source serves 2 at a time
C8_Witness ==
    /\ InScenario /\ site.page_size = 2 /\ pc = "return"
    /\ Len(all_books) = 8 /\ summary = <<3, 5>> /\ file0 = NoFile

(***************************************************************************)
(* C9  Idempotence.  For either driver: when a run has completed and       *)
(* written its final buffer, a second run on that file against the same    *)
(* source admits no record and ends with a buffer whose records and order  *)
(* are those of the first run's final buffer, without a duplicate key.     *)
(***************************************************************************)
C9_Idempotence ==
    (prior = "completed" /\ pc \in {"return", "done"}) =>
        /\ Len(all_books) = Len(loaded)
        /\ all_books = baseline.books
        /\ NoDuplicateKeys(all_books)

\* the second run of the catalog driver has returned with the records of the
\* first in the same order as far as their titles go, one of them changed
C9_Witness ==
    /\ prior = "completed" /\ pc = "return" /\ driver = "html"
    /\ Len(all_books) = 2 /\ KeySeq(all_books) = KeySeq(baseline.books)
    /\ all_books # baseline.books

(***************************************************************************)
(* C10  Resumability of the catalog driver.  For the same source, when a   *)
(* run of scrape_gutenberg was killed after at least one write of the file *)
(* and the script was started again on that file, the buffer the new run   *)
(* returns holds every title of the buffer an uninterrupted run returns,   *)
(* and no title twice.                                                     *)
(***************************************************************************)
C10_HtmlResume ==
    (driver = "html" /\ prior = "killed" /\ pc \in {"return", "done"}) =>
        /\ KeysOf(baseline.books) \subseteq KeysOf(all_books)
        /\ NoDuplicateKeys(all_books)

\* the restarted run has returned without the last title of the category
C10_Witness ==
    /\ driver = "html" /\ prior = "killed" /\ pc = "return"
    /\ Len(loaded) = 2 * save_every
    /\ BigCat \in KeysOf(baseline.books) /\ BigCat \notin KeysOf(all_books)

(***************************************************************************)
(* C11  Resumability of the API driver.  For the same source, when a run   *)
(* of collect_books_from_api was killed after at least one write of the    *)
(* file and the script was started again on that file, the buffer the new  *)
(* run returns holds every id of the buffer an uninterrupted run returns,  *)
(* no id twice, and the records loaded from the file at its front, in      *)
(* their order.                                                            *)
(***************************************************************************)
C11_ApiResume ==
    (driver = "api" /\ prior = "killed" /\ pc \in {"return", "done"}) =>
        /\ KeysOf(baseline.books) \subseteq KeysOf(all_books)
        /\ NoDuplicateKeys(all_books)
        /\ IsPrefix(loaded, all_books)

\* the restarted run has returned: it loaded the records of the first query
\* and added those of the second
C11_Witness ==
    /\ driver = "api" /\ prior = "killed" /\ pc = "return"
    /\ Len(loaded) >= 1 /\ Len(all_books) > Len(loaded)
    /\ KeysOf(baseline.books) = KeysOf(all_books)

(***************************************************************************)
(* C12  Threshold persistence.  In both drivers, whenever a pass of the    *)
(* while loop takes len(all_books) from below a multiple of 100 to that    *)
(* multiple or beyond it, the file holds the entire buffer when the pass   *)
(* is over, before the next page is requested (every write succeeds).      *)
(***************************************************************************)
Crosses(before, after) ==
    \E m \in 1..(after \div 100) : before < m * 100 /\ m * 100 <= after

ThresholdPersisted ==
    (pc = "while" /\ Crosses(Len(all_books), Len(all_books'))) =>
        file' = to_csv(all_books')

ItemPersisted ==
    (pc = "end_query" /\ pc' = "for" /\ Len(all_books) > 0) =>
        file' = to_csv(all_books)

C13_ItemPersist == [][ItemPersisted]_vars

\* the HTML driver is at the head of the for loop for the second category,
\* holds records, and has written nothing
C13_Witness ==
    /\ driver = "html" /\ prior = "none" /\ pc = "for" /\ query_idx = 2
    /\ Len(all_books) > 0 /\ persists = 0 /\ file = NoFile

(***************************************************************************)
(* C14  A failing persist is not fatal and persists are wholesale.  In     *)
(* both drivers a step of the loops that may write the file never ends the *)
(* run because of the write: the after-query step goes on to the next      *)
(* worklist item with buffer and seen-set as they were, a pass that took   *)
(* the buffer to a multiple of 100 goes on to the next pass, and no pass   *)
(* removes a record or a seen key.  Every write that succeeds, whatever    *)
(* failed before it, leaves the whole buffer in the file, in order.        *)
(***************************************************************************)
PersistStep ==
    /\ (persists' = persists + 1) => file' = to_csv(all_books')
    /\ (pc = "end_query" /\ persists' = persists) =>
           /\ pc' = "for"
           /\ all_books' = all_books /\ seen' = seen
    /\ (pc = "while" /\ all_books' # all_books) =>
           /\ pc' = "while"
           /\ IsPrefix(all_books, all_books') /\ seen \subseteq seen'

C14_PersistFailure == [][PersistStep]_vars

\* the write at 100 records failed, the one at 200 succeeded
C14_Witness ==
    /\ driver = "html" /\ site = LockedSite /\ pc = "while"
    /\ Len(all_books) = 2 * save_every /\ persists = 1 /\ file = to_csv(all_books)

(***************************************************************************)
(* C15  Best-effort load.  In both drivers, when the file at output_file   *)
(* is missing, does not parse, or has no key column ('id' for the API,     *)
(* 'title' for the catalogue), the run reaches the for loop with an empty  *)
(* buffer and an empty seen-set.                                           *)
(***************************************************************************)
Unusable(f) == f.kind = "absent" \/ ReadRaises(f) \/ ~f.keycol

C15_BestEffortLoad ==
    (pc = "for" /\ query_idx = 1 /\ Unusable(file0)) =>
        (all_books = <<>> /\ seen = {})

\* scrape_gutenberg is at the for loop after reading a table of two rows
\* that has no title column
C15_Witness ==
    /\ driver = "html" /\ pc = "for" /\ query_idx = 1
    /\ file0.kind = "table" /\ ~file0.keycol /\ Len(file0.rows) = 2
    /\ Len(all_books) = 2 /\ seen = {}

(***************************************************************************)
(* C16  Global stop.  In both drivers, once the buffer holds the target    *)
(* number of records (max_books_per_query / min_books), no further page is *)
(* requested and no further worklist item is started: from the for loop    *)
(* the driver returns, and a pass of the while loop ends the item without  *)
(* a request.                                                              *)
(***************************************************************************)
StopsAtTarget ==
    (Len(all_books) >= target /\ pc \in {"for", "while"}) =>
        /\ pc' \in {"end_query", "return", "killed"}
        /\ pc' = "end_query" =>
              (result' = result /\ requested' = requested /\
               request_count' = request_count)

C16_GlobalStop == [][StopsAtTarget]_vars

\* collect_books_from_api has requested a page of the second query with the
\* buffer already at max_books_per_query
C16_Witness ==
    /\ driver = "api" /\ prior = "none" /\ pc = "while" /\ query_idx = 2
    /\ Len(loaded) = 0 /\ Len(all_books) >= target /\ request_count = 1
    /\ summary = <<target>>

(***************************************************************************)
(* C17  A fetch failure is local.  In both drivers the pass in which the   *)
(* fetcher returned None ends the pagination of the current worklist item  *)
(* and leaves buffer, seen-set and file as they were; the step after it    *)
(* goes to the next worklist item with the same buffer and seen-set, and   *)
(* the for loop starts that item (unless scrape_gutenberg has its          *)
(* min_books).                                                             *)
(***************************************************************************)
FetchFailureLocal ==
    /\ (pc = "while" /\ result'.kind = "None") =>
           /\ pc' = "end_query"
           /\ all_books' = all_books /\ seen' = seen /\ file' = file
           /\ query_idx' = query_idx
    /\ (pc = "end_query" /\ result.kind = "None") =>
           /\ pc' = "for" /\ query_idx' = query_idx + 1
           /\ all_books' = all_books /\ seen' = seen
    /\ (pc = "for" /\ query_idx <= NumQueries
            /\ (driver = "api" \/ Len(all_books) < target)) =>
           /\ pc' = "while"
           /\ all_books' = all_books /\ seen' = seen

C17_FetchFailure == [][FetchFailureLocal]_vars

\* the second request of the first query failed after the first had
\* admitted a record
C17_Witness ==
    /\ driver = "api" /\ pc = "end_query" /\ query_idx = 1
    /\ result.kind = "None" /\ request_count = 2 /\ Len(all_books) >= 1

(***************************************************************************)
(* Termination.  A call of a fetcher, or one run of a driver on a source   *)
(* that may answer anything, on a query that serves one item per request   *)
(* for more than max_requests requests, or on a category that lists one    *)
(* title at every offset below max_index.  The program is sequential: a    *)
(* step that can be taken is taken (every sleep ends, every request has a  *)
(* timeout).                                                               *)
(***************************************************************************)
CeilingSite == Site(1, max_requests + 1, 0, max_requests + 1, {})
DeepSite == Site(1, max_index, 0, max_index, {})

TermInit ==
    \/ FetchStart
    \/ /\ FetchIdle
       /\ \/ \E d \in {"api", "html"}, t \in 1..MaxTarget :
                DriverStart(d, t, AnySite, NoFile)
          \/ DriverStart("api", max_requests + 1, CeilingSite, NoFile)
          \/ DriverStart("html", max_index, DeepSite, NoFile)

TermNext == FetchNext \/ DiskNext

TermSpec == TermInit /\ [][TermNext]_vars /\ WF_vars(TermNext)

(***************************************************************************)
(* C18  Termination.  Whatever the source answers, a fetcher call makes at *)
(* most max_retries + 1 requests (one more for the request without the     *)
(* key) and ends, and a driver run ends.  Per worklist item the API driver *)
(* makes at most 500 requests, each only while request_count < 500, and    *)
(* the cursor of a request that is followed by another is strictly larger  *)
(* afterwards; the HTML driver sends a request only with start_index <     *)
(* 10000 and moves the cursor forward on every pass that stays in the      *)
(* loop.                                                                   *)
(***************************************************************************)
RequestsBounded ==
    /\ NumRequests <= max_retries + (IF fetcher = "api" /\ api_key THEN 2 ELSE 1)
    /\ retry_count <= max_retries
    /\ request_count <= max_requests
    /\ (driver = "html" /\ result # NoResult) => requested < max_index

CursorMoves ==
    /\ (request_count' = request_count + 1) =>
           (request_count < max_requests /\ start_index < target)
    /\ (pc = "while" /\ pc' = "while") => start_index' > start_index

Terminated == fpc \in {"returned", "raised"} /\ pc \in {"done", "raised"}

C18_Termination == []RequestsBounded /\ [][CursorMoves]_vars /\ <>[]Terminated

\* the API driver has stopped a query at the ceiling of 500 requests, short
\* of max_books_per_query
C18_Witness ==
    /\ driver = "api" /\ pc = "end_query" /\ query_idx = 1
    /\ request_count = max_requests /\ start_index = max_requests
    /\ start_index < target /\ Len(all_books) = max_requests


(***************************************************************************)
(* C19  Append-only, first-seen order.  In both drivers the load puts the  *)
(* rows of the file into the buffer in file order; after it, every step of *)
(* a run leaves the buffer as it was or appends to it, and what a pass of  *)
(* the while loop appends is the page it fetched, in page order, without   *)
(* the items whose key was seen (and, in scrape_gutenberg, cut at          *)
(* min_books).  So the loaded records always come first.                   *)
(***************************************************************************)
\* the page a pass of the while loop of the current state is served
PageServed ==
    Slice(site, query_idx, IF driver = "api" THEN start_index + 1 ELSE start_index)

\* its keys that were not seen, in page order, as many as the driver takes
FreshKeys ==
    LET IsFresh(it) == it.key \notin seen
        fresh == KeySeq(SelectSeq(PageServed, IsFresh))
        room == target - Len(all_books)
    IN IF driver = "html" /\ room < Len(fresh) THEN SubSeq(fresh, 1, room) ELSE fresh

AppendOnly ==
    /\ (pc = "load" /\ pc' = "for") =>
           KeySeq(all_books') = (IF file.kind = "table" THEN KeySeq(file.rows) ELSE <<>>)
    /\ (pc \in {"for", "end_query", "return"} /\ pc' # "killed") =>
           all_books' = all_books
    /\ (pc = "while" /\ pc' # "killed") =>
           /\ IsPrefix(all_books, all_books')
           /\ KeySeq(all_books') \in
                 {KeySeq(all_books), KeySeq(all_books) \o FreshKeys}

C19_AppendOnly ==
    /\ [][AppendOnly]_vars
    /\ [](pc \in {"for", "while", "end_query", "return", "done"} =>
              IsPrefix(loaded, all_books))

\* a run that loaded one record has fetched a page of the second query that
\* holds the loaded record and a new one, and has appended the new one
C19_Witness ==
    /\ driver = "api" /\ prior = "killed" /\ pc = "while" /\ query_idx = 2
    /\ Len(loaded) = 1 /\ Len(all_books) = 2
    /\ result.n = 2 /\ result.dup = 1

(***************************************************************************)
(* C20  Empty-page streak of scrape_gutenberg.  The counter starts at 0    *)
(* for every category.  A fetched page with listing elements that admits   *)
(* no record adds 1 to it, one that admits a record sets it to 0, and the  *)
(* category is left after such a page exactly when it admitted nothing and *)
(* was the 5th in a row.  A request that fails, or a page without listing  *)
(* elements, ends the category at once and leaves the counter alone.       *)
(***************************************************************************)
StreakRule ==
    LET fetched == start_index < max_index /\ Len(all_books) < target
        admitted == Len(all_books') - Len(all_books)
    IN driver = "html" =>
        /\ (pc = "for" /\ pc' = "while") => consecutive_empty_pages' = 0
        /\ (pc = "while" /\ fetched /\ result'.kind = "page" /\ result'.n > 0) =>
               /\ consecutive_empty_pages' =
                     (IF admitted = 0 THEN consecutive_empty_pages + 1 ELSE 0)
               /\ (pc' = "end_query") <=>
                     (admitted = 0 /\ consecutive_empty_pages + 1 = max_empty_pages)
               /\ pc' \in {"while", "end_query"}
        /\ (pc = "while" /\ fetched /\ (result'.kind = "None" \/ result'.n = 0)) =>
               /\ pc' = "end_query"
               /\ consecutive_empty_pages' = consecutive_empty_pages

C20_StreakRule ==
    /\ [][StreakRule]_vars
    /\ [](driver = "html" =>
            /\ consecutive_empty_pages <= max_empty_pages
            /\ pc = "while" => consecutive_empty_pages < max_empty_pages)

\* the category was left after its 7th page: one of the first two admitted
\* a record (the counter went back to 0), the last five none
C20_Witness ==
    /\ driver = "html" /\ pc = "end_query" /\ query_idx = 1
    /\ consecutive_empty_pages = max_empty_pages
    /\ result.kind = "page" /\ result.n > 0
    /\ requested = 1 + 6 * items_per_page /\ Len(all_books) = 1 /\ Len(loaded) = 0

(***************************************************************************)
(* What the file holds and what the buffer holds, as tables of cells: a    *)
(* missing field, nan and a blank cell are the same cell.                  *)
(***************************************************************************)
Cell(c) == IF c \in {None, NaN, Blank} THEN Blank ELSE c
Content(f) ==
    [i \in 1..Len(f.rows) |->
        Rec(Cell(ReadCell(f.keycol, f.rows[i].key)),
            Cell(ReadCell(f.valcol, f.rows[i].val)))]
Held(books) == [i \in 1..Len(books) |-> Rec(Cell(books[i].key), Cell(books[i].val))]

\* the load of this run took every row of the file it found, or found none
LoadSucceeded == run = 1 => Len(loaded) = Len(file0.rows)

InRun == pc \in {"for", "while", "end_query", "return", "done"}

FileIsPrefix == (InRun /\ LoadSucceeded) => IsPrefix(Content(file), Held(all_books))

\* no step of a run takes a row out of the file
KeepsPersisted == (InRun /\ LoadSucceeded /\ pc' # "load") => IsPrefix(Content(file), Content(file'))

(***************************************************************************)
(* C21  The checkpoint is a prefix of the buffer.  In both drivers, after  *)
(* a load that took every row of the file (or found no file), the rows of  *)
(* the file are at every state of the run the first rows of the buffer,    *)
(* and no step of the run takes a row out of the file: a run killed at any *)
(* point finds in the file every record that was persisted before.         *)
(***************************************************************************)
C21_CheckpointPrefix == []FileIsPrefix /\ [][KeepsPersisted]_vars

\* the write after the first query put two records into the file; the write
\* after the second query failed and left the header alone
C21_Witness ==
    /\ driver = "api" /\ run = 1 /\ pc = "for" /\ query_idx = 3
    /\ summary = <<2, 0>> /\ Len(all_books) = 2 /\ persists = 1
    /\ file.kind = "table" /\ file.rows = <<>>

(***************************************************************************)
(* C22  Request bound of get_books_by_query.  One call with max_retries =  *)
(* M sends at most M + 2 requests, whatever the answers: at most M + 1     *)
(* with the parameters as built (the 429 chain), and, when the call was    *)
(* given a key, at most one without it (the 403 remediation).  A 429       *)
(* answer to that request ends the call with None: no sleep and no request *)
(* follows it.                                                             *)
(***************************************************************************)
\* the positions of the requests sent after params.pop("key")
RemediationIdx == {i \in ReqIdx : api_key /\ log[i] = Ev("request", 0)}

C22_RequestBound ==
    fetcher = "api" =>
        /\ NumRequests <= max_retries + 2
        /\ Cardinality(ReqIdx \ RemediationIdx) <= max_retries + 1
        /\ Cardinality(RemediationIdx) <= 1
        /\ ~api_key => NumRequests <= max_retries + 1
        /\ \A i \in RemediationIdx :
              (i < Len(log) /\ log[i + 1] = Ev("response", 429)) =>
                  (Len(log) = i + 1 /\ fpc = "returned" /\ ret = "None")

\* M keyed requests were answered 429, the last keyed one 403, and the
\* request without the key 429: M + 2 requests, and the call has returned
C22_Witness ==
    /\ fetcher = "api" /\ api_key /\ max_retries = MaxRetriesArg
    /\ NumRequests = max_retries + 2 /\ retry_count = max_retries
    /\ log[Len(log)] = Ev("response", 429) /\ log[Len(log) - 1] = Ev("request", 0)
    /\ fpc = "returned" /\ ret = "None"

(***************************************************************************)
(* One run of scrape_gutenberg that finds at output_file no file or a      *)
(* table with a title in every row (titles may repeat), on any source.     *)
(***************************************************************************)
TitledFiles ==
    {NoFile} \cup
    {[kind |-> "table", keycol |-> TRUE, valcol |-> TRUE,
      rows |-> [i \in 1..Len(ks) |-> Rec(ks[i], 0)]] :
        ks \in SeqsUpTo(Keys, MaxFileRows)}

HtmlFileInit ==
    /\ FetchIdle
    /\ \E t \in 1..MaxTarget, f \in TitledFiles : DriverStart("html", t, AnySite, f)

HtmlFileNext == Load \/ HtmlFor \/ HtmlWhile \/ HtmlEndQuery \/ MainSave

HtmlFileSpec == HtmlFileInit /\ [][HtmlFileNext]_vars

(***************************************************************************)
(* C23  Target cap of scrape_gutenberg.  At every state of a run the       *)
(* buffer holds at most max(records loaded, min_books) records; the        *)
(* admission loop stops inside a page when the buffer reaches min_books;   *)
(* and a run that loaded min_books records or more sends no request.       *)
(***************************************************************************)
Max(a, b) == IF a >= b THEN a ELSE b
Min(a, b) == IF a <= b THEN a ELSE b

C23_TargetCap ==
    (driver = "html" /\ pc \in {"for", "while", "end_query", "return", "done"}) =>
        /\ Len(all_books) <= Max(Len(loaded), target)
        /\ Len(loaded) >= target => (all_books = loaded /\ result = NoResult
                                        /\ pc \in {"for", "return", "done"})
        \* whatever page the next request is answered with, the pass admits
        \* its new titles up to min_books and no more
        /\ (pc = "while" /\ start_index < max_index /\ Len(all_books) < target) =>
               \A r \in HtmlOffer(query_idx, start_index) :
                  LET fresh == {k \in KeysOf(r.items) : Truthy(k)} \ seen
                      acc == HtmlAdmitAll(r.items,
                                 [books |-> all_books, seen |-> seen, n |-> 0,
                                  dup |-> 0], target)
                  IN Len(acc.books) =
                        Min(target, Len(all_books) + Cardinality(fresh))

\* after a page of two elements, none of them seen before, one record was
\* admitted and the buffer is at min_books = 2 with one loaded record
C23_Witness ==
    /\ driver = "html" /\ pc = "while" /\ target = 2
    /\ Len(loaded) = 1 /\ Len(all_books) = 2
    /\ result.kind = "page" /\ result.n = 2 /\ result.dup = 0 /\ books_collected = 1

====
